---------------------------- MODULE Spec2Model ----------------------------
(***************************************************************************)
(* Closed-loop depth control of the UUV (src/uuv_mission): the PD          *)
(* controller, the Submarine plant, ClosedLoop.simulate and                *)
(* ClosedLoop.calculate_performance_metrics.                               *)
(*                                                                         *)
(* Python's numbers are modelled as exact rationals <<n, d>> (d > 0, in    *)
(* lowest terms); rounding of binary floating point is not modelled.       *)
(***************************************************************************)
EXTENDS Integers, Sequences, FiniteSets, TLC

VARIABLES
    plant,          \* the Submarine object's fields
    controller,     \* the PDController object's fields
    pc,             \* where the ClosedLoop is: "idle", "loop", "returned", "raised"
    reference,      \* mission.reference of the current simulate call
    disturbances,   \* disturbances of the current simulate call
    t,              \* loop variable of simulate (number of completed iterations)
    positions,      \* local array positions of simulate (the Trajectory)
    actions,        \* local array actions of simulate
    calls,          \* history: number of compute_control_action calls so far
    transitions,    \* history: number of transition calls so far
    lastCall,       \* history: arguments of the latest compute_control_action call
    lastTransition, \* history: arguments of the transition call of this step
    entry,          \* history: what the current simulate call found at entry
    carry,          \* history: the last error of the latest simulate run
    direct,         \* history: number of direct calls on the plant or the controller
    trajectory,     \* calculate_performance_metrics: trajectory.position
    mission,        \* calculate_performance_metrics: mission.reference
    mpc,            \* calculate_performance_metrics: "start", "printed", "raised"
    report          \* calculate_performance_metrics: the three printed metrics

vars == <<plant, controller, pc, reference, disturbances, t, positions, actions,
          calls, transitions, lastCall, lastTransition, entry, carry, direct,
          trajectory, mission, mpc, report>>

simVars == <<plant, controller, pc, reference, disturbances, t, positions, actions,
             calls, transitions, lastCall, lastTransition, entry, carry, direct>>

metricVars == <<trajectory, mission, mpc, report>>

-----------------------------------------------------------------------------
(* Bounds of the model *)

\* Longest mission reference drawn freely from RefVals.
MaxT == 3

\* Total number of controller calls / plant transitions explored in one behaviour.
MaxSteps == 5

\* Number of direct calls (outside simulate) on the plant or the controller.
MaxDirect == 1

\* Longest mission handed to calculate_performance_metrics.
MaxMetricT == 4

-----------------------------------------------------------------------------
(* Exact rational arithmetic standing for Python's float arithmetic *)

Abs(n) == IF n < 0 THEN -n ELSE n

RECURSIVE GCD(_, _)
GCD(a, b) == IF b = 0 THEN a ELSE GCD(b, a % b)

Norm(n, d) == LET g == GCD(Abs(n), d) IN <<n \div g, d \div g>>

R(n) == <<n, 1>>

RNeg(a) == <<-a[1], a[2]>>

RAbs(a) == <<Abs(a[1]), a[2]>>

\* The sum over the least common denominator.
RAddOver(a, b, g) ==
    Norm(a[1] * (b[2] \div g) + b[1] * (a[2] \div g), (a[2] \div g) * b[2])

RAdd(a, b) ==
    IF a[1] = 0 THEN b
    ELSE IF b[1] = 0 THEN a
    ELSE IF a[2] = 1 /\ b[2] = 1 THEN <<a[1] + b[1], 1>>
    ELSE RAddOver(a, b, GCD(a[2], b[2]))

RSub(a, b) == RAdd(a, RNeg(b))

\* The product with the common factors g1 (of a's numerator and b's denominator)
\* and g2 (of b's numerator and a's denominator) cancelled first.
RMulOver(a, b, g1, g2) ==
    <<(a[1] \div g1) * (b[1] \div g2), (a[2] \div g2) * (b[2] \div g1)>>

RMul(a, b) ==
    IF a[1] = 0 \/ b[1] = 0 THEN <<0, 1>>
    ELSE IF a = <<1, 1>> THEN b
    ELSE IF b = <<1, 1>> THEN a
    ELSE RMulOver(a, b, GCD(Abs(a[1]), b[2]), GCD(Abs(b[1]), a[2]))

\* a / b for b # 0
RDiv(a, b) ==
    RMul(a, IF b[1] < 0 THEN <<-b[2], -b[1]>> ELSE <<b[2], b[1]>>)

\* a < b, compared over the least common denominator.
RLtOver(a, b, g) == a[1] * (b[2] \div g) < b[1] * (a[2] \div g)

RLt(a, b) == RLtOver(a, b, GCD(a[2], b[2]))

RMax(a, b) == IF RLt(a, b) THEN b ELSE a

-----------------------------------------------------------------------------
(* PDController *)

\* PDController.__init__ with the default gains kp = 0.15, kd = 0.6
NewController == [kp |-> <<3, 20>>, kd |-> <<3, 5>>, previous_error |-> R(0)]

\* Lines 26 to 31 of compute_control_action, given the error of line 23.
ControlLaw(c, error) ==
    [action |-> RAdd(RMul(c.kp, error), RMul(c.kd, RSub(error, c.previous_error))),
     controller |-> [c EXCEPT !.previous_error = error]]

\* The value compute_control_action returns, with the controller after the call.
ComputeControlAction(c, ref, current_depth) ==
    ControlLaw(c, RSub(ref, current_depth))

-----------------------------------------------------------------------------
(* Submarine *)

NewSubmarine ==
    [mass |-> R(1), drag |-> <<1, 10>>, actuator_gain |-> R(1), dt |-> R(1),
     pos_x |-> R(0), pos_y |-> R(0), vel_x |-> R(1), vel_y |-> R(0)]

\* Lines 25 and 26 of transition: the position integrates the velocity.
MovePosition(p) ==
    [p EXCEPT !.pos_x = RAdd(@, RMul(p.vel_x, p.dt)),
              !.pos_y = RAdd(@, RMul(p.vel_y, p.dt))]

\* force_y of line 28
ForceY(p, action, disturbance) ==
    RAdd(RMul(RNeg(p.drag), p.vel_y),
         RMul(p.actuator_gain, RAdd(action, disturbance)))

\* Lines 29 and 30 of transition: the velocity integrates the acceleration.
Accelerate(p, force_y) ==
    [p EXCEPT !.vel_y = RAdd(@, RMul(RDiv(force_y, p.mass), p.dt))]

\* A plausible slip: the velocity is integrated before the position.
TransitionVelocityFirst(p, action, disturbance) ==
    MovePosition(Accelerate(p, ForceY(p, action, disturbance)))

\* A plausible slip: the drag pushes instead of braking.
TransitionDragSign(p, action, disturbance) ==
    Accelerate(MovePosition(p),
               RAdd(RMul(p.drag, p.vel_y),
                    RMul(p.actuator_gain, RAdd(action, disturbance))))

\* Lines 28 to 30 of transition, on the plant as lines 25 and 26 left it.
AccelerateMoved(moved, action, disturbance) ==
    Accelerate(moved, ForceY(moved, action, disturbance))

\* transition(action, disturbance): the plant after the call.
Transition(p, action, disturbance) ==
    AccelerateMoved(MovePosition(p), action, disturbance)

GetDepth(p) == p.pos_y

GetPosition(p) == <<p.pos_x, p.pos_y>>

\* A plausible slip: the reset forgets the vertical velocity.
ResetStateKeepsVelocity(p) ==
    [p EXCEPT !.pos_x = R(0), !.pos_y = R(0), !.vel_x = R(1)]

ResetState(p) ==
    [p EXCEPT !.pos_x = R(0), !.pos_y = R(0), !.vel_x = R(1), !.vel_y = R(0)]


-----------------------------------------------------------------------------
(* ClosedLoop.simulate *)

\* Values the callers of the model pass in.
RefVals == {R(0), R(1)}
DistVals == {R(0), R(1)}
ActionVals == {R(1)}
DepthVals == {R(1)}

\* The reference of the documented examples (reference = [0]*5).
ExampleReference == <<R(0), R(0), R(0), R(0), R(0)>>

\* The lengths of the missions passed to simulate.
Lengths == 0..MaxT \cup {Len(ExampleReference)}

\* The missions of length T: every reference over RefVals up to length MaxT, and
\* the reference of the documented examples.
MissionsOf(T) ==
    IF T <= MaxT THEN [1..T -> RefVals] ELSE {m \in {ExampleReference} : Len(m) = T}

Ones(T) == [i \in 1..T |-> R(1)]

\* d with n entries: cut after the first n, or with one more entry.
Resized(d, n) == IF n > Len(d) THEN Append(d, R(1)) ELSE SubSeq(d, 1, n)

\* The disturbances passed in with mission m: every sequence over DistVals as
\* long as the mission, and for one mission of each length a sequence one entry
\* shorter and one entry longer (simulate compares the two lengths and reads no
\* entry beyond the first Len(m)).
DisturbancesFor(m) ==
    [1..Len(m) -> DistVals]
        \cup (IF m = Ones(Len(m))
              THEN {Resized(m, n) : n \in {k \in {Len(m) - 1, Len(m) + 1} : k >= 0}}
              ELSE {})

\* The arguments of the calls of simulate.
Inputs ==
    UNION {{<<m, d>> : d \in DisturbancesFor(m)} :
              m \in UNION {MissionsOf(T) : T \in Lengths}}

Zeros(T) == [i \in 1..T |-> R(0)]

ZeroPositions(T) == [i \in 1..T |-> <<R(0), R(0)>>]

Used == IF calls > transitions THEN calls ELSE transitions

NoEntry ==
    [previous_error |-> R(0), dirty |-> FALSE, calls |-> 0, transitions |-> 0,
     carry |-> <<>>]

EntryOf(p, c) ==
    [previous_error |-> c.previous_error,
     dirty |-> p # ResetState(p),
     calls |-> calls,
     transitions |-> transitions,
     carry |-> carry]

\* The validation of simulate (the condition of the raise of ValueError).
TooShort(m, d) == Len(d) < Len(m)

\* A plausible slip: the loop stops one iteration early.
LoopContinuesShort(k, T) == k < T - 1

\* for t in range(T)
LoopContinues(k, T) == k < T

\* Lines 108 and 109 on the plant p, r being the controller's answer: the action
\* is stored in actions[t] and handed to the plant with disturbances[t].
ActOn(p, r, d, k, pos, acts, observation_t) ==
    [plant |-> Transition(p, r.action, d[k + 1]),
     controller |-> r.controller,
     positions |-> pos,
     actions |-> [acts EXCEPT ![k + 1] = r.action],
     observation |-> observation_t]

\* The iteration with the position recorded after the transition.
RecordAfter(b, k) ==
    [b EXCEPT !.positions = [@ EXCEPT ![k + 1] = GetPosition(b.plant)]]

\* A plausible slip: the position is recorded after the transition.
LoopBodyRecordAfter(p, c, m, d, k, pos, acts) ==
    RecordAfter(ActOn(p, ComputeControlAction(c, m[k + 1], GetDepth(p)), d, k,
                      pos, acts, GetDepth(p)),
                k)

\* One iteration of the loop of simulate, t = k (0-based), on plant p and
\* controller c.
LoopBody(p, c, m, d, k, pos, acts) ==
    ActOn(p, ComputeControlAction(c, m[k + 1], GetDepth(p)), d, k,
          [pos EXCEPT ![k + 1] = GetPosition(p)], acts, GetDepth(p))

\* A plausible slip: the plant is reset before the lengths are validated.
SimulateRaiseAfterReset(m, d) ==
    /\ pc = "idle"
    /\ TooShort(m, d)
    /\ pc' = "raised"
    /\ reference' = m
    /\ disturbances' = d
    /\ entry' = EntryOf(plant, controller)
    /\ plant' = ResetState(plant)
    /\ lastTransition' = <<>>
    /\ UNCHANGED <<controller, t, positions, actions, calls, transitions,
                   lastCall, carry, direct>>
    /\ UNCHANGED metricVars

\* simulate(mission, disturbances) with too few disturbances: raises ValueError.
SimulateRaise(m, d) ==
    /\ pc = "idle"
    /\ TooShort(m, d)
    /\ pc' = "raised"
    /\ reference' = m
    /\ disturbances' = d
    /\ entry' = EntryOf(plant, controller)
    /\ lastTransition' = <<>>
    /\ UNCHANGED <<plant, controller, t, positions, actions, calls, transitions,
                   lastCall, carry, direct>>
    /\ UNCHANGED metricVars

\* A plausible slip: simulate does not reset the plant.
SimulateBeginNoReset(m, d) ==
    /\ pc = "idle"
    /\ ~TooShort(m, d)
    /\ Used + Len(m) <= MaxSteps
    /\ pc' = "loop"
    /\ reference' = m
    /\ disturbances' = d
    /\ entry' = EntryOf(plant, controller)
    /\ positions' = ZeroPositions(Len(m))
    /\ actions' = Zeros(Len(m))
    /\ plant' = plant
    /\ t' = 0
    /\ lastTransition' = <<>>
    /\ UNCHANGED <<controller, calls, transitions, lastCall, carry, direct>>
    /\ UNCHANGED metricVars

\* A plausible slip: simulate also resets the controller's previous_error.
SimulateBeginFreshController(m, d) ==
    /\ pc = "idle"
    /\ ~TooShort(m, d)
    /\ Used + Len(m) <= MaxSteps
    /\ pc' = "loop"
    /\ reference' = m
    /\ disturbances' = d
    /\ entry' = EntryOf(plant, controller)
    /\ positions' = ZeroPositions(Len(m))
    /\ actions' = Zeros(Len(m))
    /\ plant' = ResetState(plant)
    /\ controller' = [controller EXCEPT !.previous_error = R(0)]
    /\ t' = 0
    /\ lastTransition' = <<>>
    /\ UNCHANGED <<calls, transitions, lastCall, carry, direct>>
    /\ UNCHANGED metricVars

\* simulate(mission, disturbances) up to the loop: validation, allocation, reset.
SimulateBegin(m, d) ==
    /\ pc = "idle"
    /\ ~TooShort(m, d)
    /\ Used + Len(m) <= MaxSteps
    /\ pc' = "loop"
    /\ reference' = m
    /\ disturbances' = d
    /\ entry' = EntryOf(plant, controller)
    /\ positions' = ZeroPositions(Len(m))
    /\ actions' = Zeros(Len(m))
    /\ plant' = ResetState(plant)
    /\ t' = 0
    /\ lastTransition' = <<>>
    /\ UNCHANGED <<controller, calls, transitions, lastCall, carry, direct>>
    /\ UNCHANGED metricVars

\* One iteration of the loop of simulate.
SimulateStep ==
    /\ pc = "loop"
    /\ LoopContinues(t, Len(reference))
    /\ \E b \in {LoopBody(plant, controller, reference, disturbances, t,
                          positions, actions)} :
           /\ plant' = b.plant
           /\ controller' = b.controller
           /\ positions' = b.positions
           /\ actions' = b.actions
           /\ lastCall' = <<reference[t + 1], b.observation>>
           /\ lastTransition' = <<b.actions[t + 1], disturbances[t + 1]>>
    /\ calls' = calls + 1
    /\ transitions' = transitions + 1
    /\ t' = t + 1
    /\ UNCHANGED <<pc, reference, disturbances, entry, carry, direct>>
    /\ UNCHANGED metricVars

\* The loop is over: return Trajectory(positions).
SimulateReturn ==
    /\ pc = "loop"
    /\ ~LoopContinues(t, Len(reference))
    /\ pc' = "returned"
    /\ carry' = IF Len(reference) >= 1
                THEN <<RSub(reference[Len(reference)],
                            positions[Len(reference)][2])>>
                ELSE carry
    /\ lastTransition' = <<>>
    /\ UNCHANGED <<plant, controller, reference, disturbances, t, positions,
                   actions, calls, transitions, lastCall, entry, direct>>
    /\ UNCHANGED metricVars

\* The caller has the trajectory or the exception; the frame of simulate is gone.
Resume ==
    /\ pc \in {"returned", "raised"}
    /\ pc' = "idle"
    /\ reference' = <<>>
    /\ disturbances' = <<>>
    /\ positions' = <<>>
    /\ actions' = <<>>
    /\ t' = 0
    /\ entry' = NoEntry
    /\ lastTransition' = <<>>
    /\ UNCHANGED <<plant, controller, calls, transitions, lastCall, carry, direct>>
    /\ UNCHANGED metricVars

\* A caller uses the plant directly: plant.transition(a, d).
DirectTransition(a, d) ==
    /\ pc = "idle"
    /\ Used < MaxSteps
    /\ direct < MaxDirect
    /\ direct' = direct + 1
    /\ plant' = Transition(plant, a, d)
    /\ lastTransition' = <<a, d>>
    /\ transitions' = transitions + 1
    /\ UNCHANGED <<controller, pc, reference, disturbances, t, positions, actions,
                   calls, lastCall, entry, carry>>
    /\ UNCHANGED metricVars

\* A caller uses the controller directly: controller.compute_control_action(r, y).
DirectControl(r, y) ==
    /\ pc = "idle"
    /\ Used < MaxSteps
    /\ direct < MaxDirect
    /\ direct' = direct + 1
    /\ controller' = ComputeControlAction(controller, r, y).controller
    /\ lastCall' = <<r, y>>
    /\ calls' = calls + 1
    /\ carry' = <<>>
    /\ lastTransition' = <<>>
    /\ UNCHANGED <<plant, pc, reference, disturbances, t, positions, actions,
                   transitions, entry>>
    /\ UNCHANGED metricVars

InitSim ==
    /\ plant = NewSubmarine
    /\ controller = NewController
    /\ pc = "idle"
    /\ reference = <<>>
    /\ disturbances = <<>>
    /\ t = 0
    /\ positions = <<>>
    /\ actions = <<>>
    /\ calls = 0
    /\ transitions = 0
    /\ lastCall = <<>>
    /\ lastTransition = <<>>
    /\ entry = NoEntry
    /\ carry = <<>>
    /\ direct = 0

Init ==
    /\ InitSim
    /\ trajectory = <<>>
    /\ mission = <<>>
    /\ mpc = "start"
    /\ report = <<>>

Next ==
    \/ /\ pc = "idle"
       /\ \E i \in Inputs : SimulateRaise(i[1], i[2])
    \/ /\ pc = "idle"
       /\ \E i \in Inputs : SimulateBegin(i[1], i[2])
    \/ SimulateStep
    \/ SimulateReturn
    \/ Resume
    \/ \E a \in ActionVals : \E d \in DistVals : DirectTransition(a, d)
    \/ \E r \in RefVals : \E y \in DepthVals : DirectControl(r, y)

Spec == Init /\ [][Next]_vars

-----------------------------------------------------------------------------
(* ClosedLoop.calculate_performance_metrics *)

\* Values of the references and depths handed to the metrics.
MetricRefVals == {R(-100), R(0), R(100)}
MetricPosVals == {R(-100), R(0), R(99), R(102)}

\* Trajectories whose x-coordinates are those simulate records and whose depths
\* are drawn from MetricPosVals.
TrajectoriesOf(T) ==
    {[i \in 1..T |-> <<R(i - 1), y[i]>>] : y \in [1..T -> MetricPosVals]}

\* trajectory.position[:, 1]
PositionY(traj) == [i \in 1..Len(traj) |-> traj[i][2]]

\* np.max over a non-empty array
RECURSIVE MaxOf(_, _)
MaxOf(a, n) == IF n = 1 THEN a[1] ELSE RMax(MaxOf(a, n - 1), a[n])

\* np.abs(position_y - reference_y)
AbsDeviation(position_y, reference_y) ==
    [i \in 1..Len(reference_y) |-> RAbs(RSub(position_y[i], reference_y[i]))]

\* tolerance = 0.02
Tolerance == <<1, 50>>

\* within_tolerance, as a sequence of booleans (index i + 1 holds numpy's index i)
WithinTolerance(position_y, reference_y) ==
    [i \in 1..Len(reference_y) |->
        RLt(RAbs(RSub(position_y[i], reference_y[i])),
            RMul(Tolerance, RAbs(reference_y[i])))]

\* A plausible slip: the scan starts at T - 2.
ScanStartBelow(T) == T - 2

\* The first index of range(T - 1, 0, -1)
ScanStart(T) == T - 1

\* next((i for i in range(start, 0, -1) if not within[i]), default), i 0-based
RECURSIVE NextOutside(_, _, _)
NextOutside(i, within, default) ==
    IF i <= 0 THEN default
    ELSE IF ~within[i + 1] THEN i
    ELSE NextOutside(i - 1, within, default)

\* settling_time of line 134
SettlingTime(position_y, reference_y) ==
    LET T == Len(reference_y)
    IN  NextOutside(ScanStart(T), WithinTolerance(position_y, reference_y), T - 1) + 1

\* overshoot: a division by zero gives numpy's inf or nan
Overshoot(position_y, reference_y) ==
    LET T == Len(reference_y)
        max_deviation == MaxOf(AbsDeviation(position_y, reference_y), T)
        max_reference == MaxOf([i \in 1..T |-> RAbs(reference_y[i])], T)
    IN  IF max_reference # R(0)
        THEN [finite |-> TRUE, value |-> RMul(RDiv(max_deviation, max_reference), R(100))]
        ELSE IF max_deviation = R(0)
        THEN [finite |-> FALSE, value |-> "nan"]
        ELSE [finite |-> FALSE, value |-> "inf"]

\* The format :.2f of a number r >= 0: r rounded to two decimals (ties to even).
Format2(r) ==
    LET n == r[1] * 100
        q == n \div r[2]
        twice == 2 * (n % r[2])
        up == twice > r[2] \/ (twice = r[2] /\ q % 2 = 1)
    IN  Norm(IF up THEN q + 1 ELSE q, 100)

\* calculate_performance_metrics on an empty mission: np.max raises ValueError.
MetricsRaise ==
    /\ mpc = "start"
    /\ Len(mission) = 0
    /\ mpc' = "raised"
    /\ UNCHANGED <<trajectory, mission, report>>
    /\ UNCHANGED simVars

\* calculate_performance_metrics(trajectory, mission): the three printed lines.
CalculatePerformanceMetrics ==
    /\ mpc = "start"
    /\ Len(mission) >= 1
    /\ LET position_y == PositionY(trajectory)
           reference_y == mission
           T == Len(reference_y)
           overshoot == Overshoot(position_y, reference_y)
           steady_state_error == RAbs(RSub(position_y[T], reference_y[T]))
           settling_time == SettlingTime(position_y, reference_y)
       IN  report' =
             [overshoot |-> IF overshoot.finite
                            THEN [overshoot EXCEPT !.value = Format2(@)]
                            ELSE overshoot,
              steady_state_error |-> Format2(steady_state_error),
              settling_time |-> Format2(RMul(R(settling_time), plant.dt))]
    /\ mpc' = "printed"
    /\ UNCHANGED <<trajectory, mission>>
    /\ UNCHANGED simVars

\* A mission and a trajectory of the same length, handed to the metrics.
InitMetrics ==
    /\ InitSim
    /\ \E T \in 0..MaxMetricT :
         /\ mission \in [1..T -> MetricRefVals]
         /\ trajectory \in TrajectoriesOf(T)
    /\ mpc = "start"
    /\ report = <<>>

NextMetrics ==
    \/ MetricsRaise
    \/ CalculatePerformanceMetrics

SpecMetrics == InitMetrics /\ [][NextMetrics]_vars

-----------------------------------------------------------------------------
(* The run of simulate as a function of its inputs *)

RECURSIVE RunFrom(_, _, _, _, _, _, _)

\* The rest of the loop after an iteration that left b.
RunOn(b, m, d, k) == RunFrom(b.plant, b.controller, m, d, k, b.positions, b.actions)

RunFrom(p, c, m, d, k, pos, acts) ==
    IF ~LoopContinues(k, Len(m)) THEN pos
    ELSE RunOn(LoopBody(p, c, m, d, k, pos, acts), m, d, k + 1)

\* The trajectory simulate(m, d) returns on a controller whose previous_error is
\* prev at entry.
SimulateResult(prev, m, d) ==
    RunFrom(ResetState(plant), [controller EXCEPT !.previous_error = prev],
            m, d, 0, ZeroPositions(Len(m)), Zeros(Len(m)))

-----------------------------------------------------------------------------
(* Properties of simulate, the plant and the controller *)

Horizon == Len(reference)

InRun == pc \in {"loop", "returned"}

\* C1: simulate returns a trajectory of exactly T position pairs after exactly T
\* controller calls and T transitions; the state after the T-th transition is
\* not recorded: the plant's pos_x is T*dt, the last recorded x is (T-1)*dt.
C1_TrajectoryLength ==
    pc = "returned" =>
        /\ Len(disturbances) >= Horizon
        /\ Len(positions) = Horizon
        /\ calls - entry.calls = Horizon
        /\ transitions - entry.transitions = Horizon
        /\ plant.pos_x = RMul(R(Horizon), plant.dt)
        /\ Horizon >= 1 =>
             positions[Horizon][1] = RMul(R(Horizon - 1), plant.dt)

C1_Witness ==
    /\ pc = "returned"
    /\ Horizon >= 3
    /\ Len(disturbances) > Horizon
    /\ Len(positions) = Horizon

\* A call raised exactly when it had fewer disturbances than reference points.
C2_RaiseIffTooShort ==
    /\ pc = "raised" => Len(disturbances) < Len(reference)
    /\ InRun => Len(disturbances) >= Len(reference)

\* The step that raises leaves the plant and the controller alone.
C2_RaiseChangesNothing ==
    pc' = "raised" =>
        /\ plant' = plant
        /\ controller' = controller
        /\ calls' = calls
        /\ transitions' = transitions

\* C2: simulate raises exactly when there are fewer disturbances than reference
\* points, and the raise leaves the plant and the controller as they were (no
\* reset, no controller call, no transition).
C2_FailsBeforeAnyStep == []C2_RaiseIffTooShort /\ [][C2_RaiseChangesNothing]_vars

C2_Witness ==
    /\ pc = "raised"
    /\ Len(disturbances) = Len(reference) - 1
    /\ entry.dirty
    /\ plant # ResetState(plant)
    /\ controller.previous_error # R(0)

\* The documented example: reference = [0]*5, disturbances = [1,0,0,0,0], on a
\* controller whose previous_error is 0 at entry.
ExampleRun ==
    /\ pc = "returned"
    /\ reference = ExampleReference
    /\ disturbances = <<R(1), R(0), R(0), R(0), R(0)>>
    /\ entry.previous_error = R(0)

\* C3 as stated: in the example the first recorded depth is 0 and the second is 1.
C3_Original ==
    ExampleRun => positions[1][2] = R(0) /\ positions[2][2] = R(1)

\* C3 (amended): in the example the first and the second recorded depths are 0
\* and the third recorded depth (slot 2) is 1.
C3_ExampleDepths ==
    ExampleRun =>
        /\ positions[1][2] = R(0)
        /\ positions[2][2] = R(0)
        /\ positions[3][2] = R(1)

C3_Witness == ExampleRun /\ plant.vel_y # R(0)

\* The plant after k transitions from the reset state, under the recorded actions
\* and the disturbances of the run.
RECURSIVE AfterTransitions(_)
AfterTransitions(k) ==
    IF k = 0
    THEN [plant EXCEPT !.pos_x = R(0), !.pos_y = R(0), !.vel_x = R(1), !.vel_y = R(0)]
    ELSE Transition(AfterTransitions(k - 1), actions[k], disturbances[k])

\* C6: slot t of the trajectory is the position after exactly t transitions from
\* the reset state, whatever state the plant was in at entry: slot 0 is (0, 0)
\* and the x-coordinate of slot t is t*dt.
C6_SlotsStartFromReset ==
    pc = "returned" =>
        \A k \in 1..Horizon :
            /\ positions[k] = GetPosition(AfterTransitions(k - 1))
            /\ positions[k][1] = RMul(R(k - 1), plant.dt)
            /\ k = 1 => positions[k] = <<R(0), R(0)>>

C6_Witness ==
    /\ pc = "returned"
    /\ entry.dirty
    /\ Horizon >= 3
    /\ positions[3][2] # R(0)

\* C7: previous_error is reference - current_depth of the latest
\* compute_control_action call (0 before the first); simulate does not reset it:
\* after a run it is reference[T-1] - position_y[T-1], the next run starts from
\* that value, and its first action is kp*e0 + kd*(e0 - previous_error at entry).
C7_PreviousErrorCarriesOver ==
    /\ controller.previous_error =
         IF lastCall = <<>> THEN R(0) ELSE RSub(lastCall[1], lastCall[2])
    /\ (pc = "returned" /\ Horizon >= 1) =>
         controller.previous_error =
            RSub(reference[Horizon], positions[Horizon][2])
    /\ (InRun /\ entry.carry # <<>>) => entry.previous_error = entry.carry[1]
    /\ (InRun /\ t = 0) => controller.previous_error = entry.previous_error
    /\ (InRun /\ t >= 1) =>
         LET e0 == RSub(reference[1], R(0))
         IN  actions[1] =
               RAdd(RMul(controller.kp, e0),
                    RMul(controller.kd, RSub(e0, entry.previous_error)))

C7_Witness ==
    /\ InRun
    /\ t >= 1
    /\ entry.carry # <<>>
    /\ entry.previous_error # R(0)
    /\ LET e0 == RSub(reference[1], R(0))
       IN  actions[1] # RAdd(RMul(controller.kp, e0), RMul(controller.kd, e0))

\* The step is a call of transition.
TransitionCalled == transitions' = transitions + 1

\* The plant the claim expects after transition(action, disturbance) on plant p,
\* every right-hand side reading the plant before the call.
ExpectedAfterTransition(p, action, disturbance) ==
    [pos_x |-> RAdd(p.pos_x, RMul(p.vel_x, p.dt)),
     pos_y |-> RAdd(p.pos_y, RMul(p.vel_y, p.dt)),
     vel_y |-> RAdd(p.vel_y,
                    RDiv(RMul(p.dt,
                              RAdd(RMul(RNeg(p.drag), p.vel_y),
                                   RMul(p.actuator_gain, RAdd(action, disturbance)))),
                         p.mass)),
     vel_x |-> p.vel_x,
     mass |-> p.mass,
     drag |-> p.drag,
     actuator_gain |-> p.actuator_gain,
     dt |-> p.dt]

\* A step that calls transition leaves the plant the claim expects.
C8_TransitionStep ==
    TransitionCalled =>
        plant' = ExpectedAfterTransition(plant, lastTransition'[1], lastTransition'[2])

\* C8: transition(action, disturbance) adds vel_x*dt to pos_x and the old
\* vel_y*dt to pos_y, and makes vel_y the old vel_y plus
\* dt * (-drag*vel_y + actuator_gain*(action + disturbance)) / mass, with the old
\* vel_y in the drag term; vel_x, mass, drag, actuator_gain and dt are unchanged.
C8_Transition == [][C8_TransitionStep]_vars

\* A transition has just acted on a plant that was moving vertically: the new
\* depth and the new vertical velocity differ from each other and from 0.
C8_Witness ==
    /\ lastTransition # <<>>
    /\ plant.pos_y # R(0)
    /\ plant.vel_y # R(0)
    /\ plant.vel_y # plant.pos_y
    /\ transitions >= 3

\* Reference all zeros, the first T disturbances all zeros, previous_error 0 at
\* entry.
AllZeroRun ==
    /\ InRun
    /\ entry.previous_error = R(0)
    /\ \A i \in 1..Horizon : reference[i] = R(0) /\ disturbances[i] = R(0)

\* C9: in an all-zero run every action is 0, vel_y and pos_y stay 0 after every
\* transition and every recorded depth is 0.
C9_AllZeroStaysZero ==
    AllZeroRun =>
        /\ \A k \in 1..t : actions[k] = R(0) /\ positions[k][2] = R(0)
        /\ plant.vel_y = R(0)
        /\ plant.pos_y = R(0)

C9_Witness ==
    /\ AllZeroRun
    /\ pc = "returned"
    /\ Horizon >= 3
    /\ entry.dirty

\* The first len inputs of the run with every entry after the first n replaced
\* by 0.
ReferenceUpTo(n, len) == [i \in 1..len |-> IF i <= n THEN reference[i] ELSE R(0)]

DisturbancesUpTo(n, len) == [i \in 1..len |-> IF i <= n THEN disturbances[i] ELSE R(0)]

\* C10: the depth at slot t depends only on reference[0..t-2], disturbances[0..t-2]
\* and previous_error at entry: slots 0 and 1 have depth 0, slot t is the last
\* slot of the run on the first t+1 inputs with those from index t-1 on replaced
\* by 0, and the whole trajectory is the one of the run whose inputs from index
\* T-2 on are replaced by 0 (and whose disturbances past the mission are cut).
C10_TwoSlotDelay ==
    pc = "returned" =>
        /\ \A k \in 1..Horizon :
             /\ k <= 2 => positions[k][2] = R(0)
             /\ positions[k] =
                  SimulateResult(entry.previous_error, ReferenceUpTo(k - 2, k),
                                 DisturbancesUpTo(k - 2, k))[k]
        /\ positions =
             SimulateResult(entry.previous_error,
                            ReferenceUpTo(Horizon - 2, Horizon),
                            DisturbancesUpTo(Horizon - 2, Horizon))

\* A run whose last two reference points and disturbances, and whose disturbance
\* past the mission, are not 0.
C10_Witness ==
    /\ pc = "returned"
    /\ Horizon >= 3
    /\ Len(disturbances) > Horizon
    /\ disturbances[Horizon + 1] # R(0)
    /\ disturbances[Horizon] # R(0)
    /\ disturbances[Horizon - 1] # R(0)
    /\ reference[Horizon] # R(0)
    /\ reference[Horizon - 1] # R(0)
    /\ positions[Horizon][2] # R(0)
    /\ entry.previous_error # R(0)

-----------------------------------------------------------------------------
(* Properties of calculate_performance_metrics *)

MetricT == Len(mission)

\* within[i] of the claims, i 0-based: |position_y[i] - reference[i]| is less than
\* 0.02 * |reference[i]|.
Within(i) ==
    RLt(RAbs(RSub(trajectory[i + 1][2], mission[i + 1])),
        RMul(<<2, 100>>, RAbs(mission[i + 1])))

\* The 0-based indices from lo to hi that are outside the tolerance band.
Outside(lo, hi) == {i \in lo..hi : ~Within(i)}

Largest(S) == CHOOSE i \in S : \A j \in S : j <= i

\* C4 as stated: the settling index is i + 1 for the largest i in 1..T-2 outside
\* the band, T-1 if there is none; the settling time is (index + 1) * dt.
C4_Original ==
    mpc = "printed" =>
        LET index == IF Outside(1, MetricT - 2) = {} THEN MetricT - 1
                     ELSE Largest(Outside(1, MetricT - 2)) + 1
        IN  report.settling_time = RMul(R(index + 1), plant.dt)

\* C4 (amended): for T >= 1 the settling index is the largest i in 1..T-1 outside
\* the band, T-1 if there is none; the settling time is (index + 1) * dt.
C4_SettlingTime ==
    mpc = "printed" =>
        LET index == IF Outside(1, MetricT - 1) = {} THEN MetricT - 1
                     ELSE Largest(Outside(1, MetricT - 1))
        IN  report.settling_time = RMul(R(index + 1), plant.dt)

C4_Witness ==
    /\ mpc = "printed"
    /\ MetricT >= 4
    /\ Outside(1, MetricT - 1) # {}
    /\ Largest(Outside(1, MetricT - 1)) < MetricT - 2
    /\ ~Within(0)

\* C5: a trajectory equal to the reference at every index except index 0 gets
\* the default settling index T-1, i.e. the settling time T * dt.
C5_ExactExceptFirst ==
    (/\ mpc = "printed"
     /\ \A i \in 1..(MetricT - 1) : trajectory[i + 1][2] = mission[i + 1])
    => report.settling_time = RMul(R(MetricT), plant.dt)

=============================================================================
